---- MODULE Spec2Model ----
(***************************************************************************)
(* A model of backend/server.py (CodeCraft API): the template fallback     *)
(* selector, the backend invoker with its response normaliser, and the     *)
(* request handlers with their two document collections.                   *)
(*                                                                         *)
(* Python str values are sequences of one-character strings, so that       *)
(* lower(), title(), strip(), split(), replace() and the `in` test are     *)
(* computed character by character as Python computes them.                *)
(***************************************************************************)
EXTENDS Naturals, Sequences, FiniteSets, TLC

VARIABLES client, clock, code_requests, code_responses, ops, history, call

vars ==
    <<client, clock, code_requests, code_responses, ops, history, call>>

(***************************************************************************)
(* Bounds of the model.                                                    *)
(***************************************************************************)
\* operations the handlers serve in one run of the orchestrator
MaxOps ==
    2
\* words in a prompt handed to the template selector
MaxWords ==
    2
\* chunks in a backend completion text handed to the normaliser
MaxChunks ==
    3

(***************************************************************************)
(* Python str operations.                                                  *)
(***************************************************************************)
\* Python's None, kept apart from every str (also from the empty str <<>>)
None ==
    <<"<None>">>

\* a local or a reply that holds no record yet
Absent ==
    [absent |-> TRUE]

UpperLetters ==
    <<"A","B","C","D","E","F","G","H","I","J","K","L","M",
      "N","O","P","Q","R","S","T","U","V","W","X","Y","Z">>

LowerLetters ==
    <<"a","b","c","d","e","f","g","h","i","j","k","l","m",
      "n","o","p","q","r","s","t","u","v","w","x","y","z">>

IsUpper(c) ==
    \E i \in 1..26 : UpperLetters[i] = c

IsLower(c) ==
    \E i \in 1..26 : LowerLetters[i] = c

LowerChar(c) ==
    IF IsUpper(c) THEN LowerLetters[CHOOSE i \in 1..26 : UpperLetters[i] = c] ELSE c

UpperChar(c) ==
    IF IsLower(c) THEN UpperLetters[CHOOSE i \in 1..26 : LowerLetters[i] = c] ELSE c

\* str.lower()
Lower(s) ==
    [i \in 1..Len(s) |-> LowerChar(s[i])]

\* str.title(): a letter that follows a non-letter is upper-cased, every other
\* letter is lower-cased
Title(s) ==
    [i \in 1..Len(s) |->
        IF i = 1 \/ ~(IsUpper(s[i-1]) \/ IsLower(s[i-1]))
        THEN UpperChar(s[i])
        ELSE LowerChar(s[i])]

\* str.find(sub) + 1: the index of the first occurrence of sub in s, 0 if none
Find(s, sub) ==
    LET hits == {i \in 1..(Len(s) + 1) :
                    /\ i + Len(sub) - 1 <= Len(s)
                    /\ SubSeq(s, i, i + Len(sub) - 1) = sub}
    IN  IF hits = {} THEN 0 ELSE CHOOSE i \in hits : \A j \in hits : i <= j

\* sub in s
Contains(s, sub) ==
    Find(s, sub) # 0

\* s.split(sep): every non-overlapping occurrence of sep, left to right, separates
RECURSIVE Split(_, _)
Split(s, sep) ==
    LET i == Find(s, sep)
    IN  IF i = 0
        THEN <<s>>
        ELSE <<SubSeq(s, 1, i - 1)>> \o Split(SubSeq(s, i + Len(sep), Len(s)), sep)

\* s.replace(old, new): every non-overlapping occurrence, left to right
RECURSIVE Replace(_, _, _)
Replace(s, old, new) ==
    LET i == Find(s, old)
    IN  IF i = 0
        THEN s
        ELSE SubSeq(s, 1, i - 1) \o new
             \o Replace(SubSeq(s, i + Len(old), Len(s)), old, new)

Whitespace ==
    {" ", "\t", "\n", "\r"}

\* s.strip()
Strip(s) ==
    LET keep == {i \in 1..Len(s) : s[i] \notin Whitespace}
    IN  IF keep = {}
        THEN <<>>
        ELSE SubSeq(s, CHOOSE i \in keep : \A j \in keep : i <= j,
                       CHOOSE i \in keep : \A j \in keep : i >= j)

\* " ".join(words)
RECURSIVE Join(_)
Join(words) ==
    IF Len(words) = 0 THEN <<>>
    ELSE IF Len(words) = 1 THEN words[1]
    ELSE words[1] \o <<" ">> \o Join(Tail(words))

\* "".join(chunks)
RECURSIVE Concat(_)
Concat(chunks) ==
    IF Len(chunks) = 0 THEN <<>> ELSE chunks[1] \o Concat(Tail(chunks))

\* the sequences over S of length at most n
SeqUpTo(S, n) ==
    UNION {[1..k -> S] : k \in 0..n}

(***************************************************************************)
(* String literals of the source.                                          *)
(***************************************************************************)
\* 'react'
KW_react ==
    <<"r","e","a","c","t">>
\* 'component'
KW_component ==
    <<"c","o","m","p","o","n","e","n","t">>
\* 'api'
KW_api ==
    <<"a","p","i">>
\* 'endpoint'
KW_endpoint ==
    <<"e","n","d","p","o","i","n","t">>
\* 'server'
KW_server ==
    <<"s","e","r","v","e","r">>
\* 'function'
KW_function ==
    <<"f","u","n","c","t","i","o","n">>
\* 'class'
KW_class ==
    <<"c","l","a","s","s">>
\* 'javascript'
L_javascript ==
    <<"j","a","v","a","s","c","r","i","p","t">>
\* 'python'
L_python ==
    <<"p","y","t","h","o","n">>
\* 'FIXED CODE:'
FIXED_CODE ==
    <<"F","I","X","E","D"," ","C","O","D","E",":">>
\* 'ISSUE:'
ISSUE ==
    <<"I","S","S","U","E",":">>
\* 'Code generated successfully'
CodeGeneratedSuccessfully ==
    <<"C","o","d","e"," ","g","e","n","e","r","a","t","e","d"," ","s","u","c","c","e","s","s","f","u","l","l","y">>
\* 'Generated React component template'
ExplReact ==
    <<"G","e","n","e","r","a","t","e","d"," ","R","e","a","c","t"," ","c","o","m","p","o","n","e","n","t"," ","t","e","m","p","l","a","t","e">>
\* 'Generated API template'
ExplApi ==
    <<"G","e","n","e","r","a","t","e","d"," ","A","P","I"," ","t","e","m","p","l","a","t","e">>
\* 'Generated function template'
ExplFunction ==
    <<"G","e","n","e","r","a","t","e","d"," ","f","u","n","c","t","i","o","n"," ","t","e","m","p","l","a","t","e">>
\* 'Generated class template'
ExplClass ==
    <<"G","e","n","e","r","a","t","e","d"," ","c","l","a","s","s"," ","t","e","m","p","l","a","t","e">>
\* 'Basic template generated. For advanced AI-powered code generation, please configure OpenAI API key.'
ExplBasic ==
    <<"B","a","s","i","c"," ","t","e","m","p","l","a","t","e"," ","g","e","n","e","r","a","t","e","d","."," ","F","o","r"," ","a","d","v","a","n","c","e","d"," ","A","I","-","p","o","w","e","r","e","d"," ","c","o","d","e"," ","g","e","n","e","r","a","t","i","o","n",","," ","p","l","e","a","s","e"," ","c","o","n","f","i","g","u","r","e"," ","O","p","e","n","A","I"," ","A","P","I"," ","k","e","y",".">>
\* '// Template not available'
NotAvailableSlash ==
    <<"/","/"," ","T","e","m","p","l","a","t","e"," ","n","o","t"," ","a","v","a","i","l","a","b","l","e">>
\* '# Template not available'
NotAvailableHash ==
    <<"#"," ","T","e","m","p","l","a","t","e"," ","n","o","t"," ","a","v","a","i","l","a","b","l","e">>
\* '// '
GenericHead ==
    <<"/","/"," ">>
\* ' code for: '
GenericMid ==
    <<" ","c","o","d","e"," ","f","o","r",":"," ">>
\* '\n// Template-based generation - please provide OpenAI API key for advanced features'
GenericTail ==
    <<"\n","/","/"," ","T","e","m","p","l","a","t","e","-","b","a","s","e","d"," ","g","e","n","e","r","a","t","i","o","n"," ","-"," ","p","l","e","a","s","e"," ","p","r","o","v","i","d","e"," ","O","p","e","n","A","I"," ","A","P","I"," ","k","e","y"," ","f","o","r"," ","a","d","v","a","n","c","e","d"," ","f","e","a","t","u","r","e","s">>
\* 'Debug this '
DebugThis ==
    <<"D","e","b","u","g"," ","t","h","i","s"," ">>
\* ' code'
CodeWord ==
    <<" ","c","o","d","e">>
\* ' that gives this error: '
ThatGivesThisError ==
    <<" ","t","h","a","t"," ","g","i","v","e","s"," ","t","h","i","s"," ","e","r","r","o","r",":"," ">>
\* 'Optimize this '
OptimizeThis ==
    <<"O","p","t","i","m","i","z","e"," ","t","h","i","s"," ">>
\* ' code for '
CodeFor ==
    <<" ","c","o","d","e"," ","f","o","r"," ">>
\* 'Explain this code in detail'
ExplainPrompt ==
    <<"E","x","p","l","a","i","n"," ","t","h","i","s"," ","c","o","d","e"," ","i","n"," ","d","e","t","a","i","l">>

(***************************************************************************)
(* Texts the callers and the backend supply.                               *)
(***************************************************************************)
\* 'go'
L_go ==
    <<"g","o">>
\* 'write a function to add two numbers'
ExamplePrompt ==
    <<"w","r","i","t","e"," ","a"," ","f","u","n","c","t","i","o","n"," ","t","o"," ","a","d","d"," ","t","w","o"," ","n","u","m","b","e","r","s">>
\* 'ISSUE: foo FIXED CODE: bar'
ExampleDebugText ==
    <<"I","S","S","U","E",":"," ","f","o","o"," ","F","I","X","E","D"," ","C","O","D","E",":"," ","b","a","r">>
\* 'React'
W_React ==
    <<"R","e","a","c","t">>
\* 'Function'
W_Function ==
    <<"F","u","n","c","t","i","o","n">>
\* 'rapid'
W_rapid ==
    <<"r","a","p","i","d">>
\* 'add'
W_add ==
    <<"a","d","d">>
\* 'foo'
T_foo ==
    <<"f","o","o">>
\* 'bar'
T_bar ==
    <<"b","a","r">>
\* 'performance'
OT_performance ==
    <<"p","e","r","f","o","r","m","a","n","c","e">>
\* 'NameError: x'
Err_NameError ==
    <<"N","a","m","e","E","r","r","o","r",":"," ","x">>
\* 'x = 1'
Src_snippet ==
    <<"x"," ","="," ","1">>

(***************************************************************************)
(* get_template_code: the fallback template selector.                      *)
(***************************************************************************)
\* The multi-line template literals.  No code searches or cuts them, so each is
\* one opaque element standing for the whole literal.
Tpl_js_react_component ==
    <<"<templates[javascript][react_component]>">>

Tpl_js_api_endpoint ==
    <<"<templates[javascript][api_endpoint]>">>

Tpl_js_function ==
    <<"<templates[javascript][function]>">>

Tpl_py_function ==
    <<"<templates[python][function]>">>

Tpl_py_class ==
    <<"<templates[python][class]>">>

Tpl_py_api ==
    <<"<templates[python][api]>">>

\* the templates dict: language -> (template key -> text)
templates ==
    (L_javascript :> ( "react_component" :> Tpl_js_react_component
                    @@ "api_endpoint"    :> Tpl_js_api_endpoint
                    @@ "function"        :> Tpl_js_function ))
    @@
    (L_python     :> ( "function" :> Tpl_py_function
                    @@ "class"    :> Tpl_py_class
                    @@ "api"      :> Tpl_py_api ))

\* DictGet with the default dropped: a missing key gives the empty str
DictGetEmpty(d, key, default) ==
    IF key \in DOMAIN d THEN d[key] ELSE <<>>

\* dict.get(key, default)
DictGet(d, key, default) ==
    IF key \in DOMAIN d THEN d[key] ELSE default

\* the last return: the generic placeholder
GenericTemplate(prompt, language) ==
    [code        |-> GenericHead \o Title(language) \o GenericMid \o prompt \o GenericTail,
     explanation |-> ExplBasic]

\* get_template_code with the "function" test moved in front of the "react" test
get_template_code_function_first(prompt, language, request_type) ==
    LET prompt_lower == Lower(prompt)
    IN  IF language \in DOMAIN templates
        THEN IF Contains(prompt_lower, KW_function)
             THEN [code        |-> DictGet(templates[language], "function",
                                           NotAvailableSlash),
                   explanation |-> ExplFunction]
             ELSE IF Contains(prompt_lower, KW_react) \/ Contains(prompt_lower, KW_component)
             THEN [code        |-> DictGet(templates[language], "react_component",
                                           NotAvailableSlash),
                   explanation |-> ExplReact]
             ELSE IF \/ Contains(prompt_lower, KW_api)
                     \/ Contains(prompt_lower, KW_endpoint)
                     \/ Contains(prompt_lower, KW_server)
             THEN [code        |-> DictGet(templates[language], "api",
                                     DictGet(templates[language], "api_endpoint",
                                             NotAvailableSlash)),
                   explanation |-> ExplApi]
             ELSE IF Contains(prompt_lower, KW_class) /\ language = L_python
             THEN [code        |-> DictGet(templates[language], "class",
                                           NotAvailableHash),
                   explanation |-> ExplClass]
             ELSE GenericTemplate(prompt, language)
        ELSE GenericTemplate(prompt, language)

get_template_code(prompt, language, request_type) ==
    LET prompt_lower == Lower(prompt)
    IN  IF language \in DOMAIN templates
        THEN IF Contains(prompt_lower, KW_react) \/ Contains(prompt_lower, KW_component)
             THEN [code        |-> DictGet(templates[language], "react_component",
                                           NotAvailableSlash),
                   explanation |-> ExplReact]
             ELSE IF \/ Contains(prompt_lower, KW_api)
                     \/ Contains(prompt_lower, KW_endpoint)
                     \/ Contains(prompt_lower, KW_server)
             THEN [code        |-> DictGet(templates[language], "api",
                                     DictGet(templates[language], "api_endpoint",
                                             NotAvailableSlash)),
                   explanation |-> ExplApi]
             ELSE IF Contains(prompt_lower, KW_function)
             THEN [code        |-> DictGet(templates[language], "function",
                                           NotAvailableSlash),
                   explanation |-> ExplFunction]
             ELSE IF Contains(prompt_lower, KW_class) /\ language = L_python
             THEN [code        |-> DictGet(templates[language], "class",
                                           NotAvailableHash),
                   explanation |-> ExplClass]
             ELSE GenericTemplate(prompt, language)
        ELSE GenericTemplate(prompt, language)

(***************************************************************************)
(* generate_code_with_ai: the backend invoker and the response parsing.    *)
(***************************************************************************)
\* the request types for which lines 77-93 bind system_prompt
SystemPromptTypes ==
    {"generate", "debug", "explain", "optimize"}

\* What client.chat.completions.create and the read of
\* response.choices[0].message.content can do: raise (timeout, authentication,
\* no choices), or give the content, a str or None.
BackendOutcome(raises, content) ==
    [raises |-> raises, content |-> content]

\* ParseResponse giving the backend's text as the explanation of an explain request
ParseResponseKeepsText(request_type, ai_response) ==
    IF request_type = "debug" /\ Contains(ai_response, FIXED_CODE)
    THEN LET parts == Split(ai_response, FIXED_CODE)
         IN  [code        |-> Strip(parts[2]),
              explanation |-> Strip(Replace(parts[1], ISSUE, <<>>))]
    ELSE IF request_type = "explain"
    THEN [code |-> ai_response, explanation |-> ai_response]
    ELSE [code |-> ai_response, explanation |-> CodeGeneratedSuccessfully]

\* lines 112-118: the parse of the backend's text
ParseResponse(request_type, ai_response) ==
    IF request_type = "debug" /\ Contains(ai_response, FIXED_CODE)
    THEN LET parts == Split(ai_response, FIXED_CODE)
         IN  [code        |-> Strip(parts[2]),
              explanation |-> Strip(Replace(parts[1], ISSUE, <<>>))]
    ELSE [code |-> ai_response, explanation |-> CodeGeneratedSuccessfully]

\* The result dict, with how many backend calls and template selections the call
\* made (backend_calls, template_calls: bookkeeping of the model).
WithCalls(result, b, t) ==
    [code |-> result.code, explanation |-> result.explanation,
     backend_calls |-> b, template_calls |-> t]

\* generate_code_with_ai without the test of line 72: the backend is called
\* whether or not a client is configured
generate_code_with_ai_no_client_test(cl, prompt, language, request_type, code_input, outcome) ==
    IF request_type \notin SystemPromptTypes
    THEN WithCalls(get_template_code(prompt, language, request_type), 0, 1)
    ELSE IF outcome.raises
    THEN WithCalls(get_template_code(prompt, language, request_type), 1, 1)
    ELSE IF request_type = "debug" /\ outcome.content = None
    THEN WithCalls(get_template_code(prompt, language, request_type), 1, 1)
    ELSE WithCalls(ParseResponse(request_type, outcome.content), 1, 0)

\* generate_code_with_ai calling the backend a second time when the call raises
generate_code_with_ai_retry(cl, prompt, language, request_type, code_input, outcome) ==
    IF ~cl
    THEN WithCalls(get_template_code(prompt, language, request_type), 0, 1)
    ELSE IF request_type \notin SystemPromptTypes
    THEN WithCalls(get_template_code(prompt, language, request_type), 0, 1)
    ELSE IF outcome.raises
    THEN WithCalls(get_template_code(prompt, language, request_type), 2, 1)
    ELSE IF request_type = "debug" /\ outcome.content = None
    THEN WithCalls(get_template_code(prompt, language, request_type), 1, 1)
    ELSE WithCalls(ParseResponse(request_type, outcome.content), 1, 0)

generate_code_with_ai(cl, prompt, language, request_type, code_input, outcome) ==
    IF ~cl
    THEN \* line 72: no client, the template
         WithCalls(get_template_code(prompt, language, request_type), 0, 1)
    ELSE IF request_type \notin SystemPromptTypes
    THEN \* line 102 reads an unbound system_prompt: UnboundLocalError, line 120
         WithCalls(get_template_code(prompt, language, request_type), 0, 1)
    ELSE IF outcome.raises
    THEN \* lines 99-109 raise: line 120
         WithCalls(get_template_code(prompt, language, request_type), 1, 1)
    ELSE IF request_type = "debug" /\ outcome.content = None
    THEN \* line 112: `"FIXED CODE:" in None` raises TypeError: line 120
         WithCalls(get_template_code(prompt, language, request_type), 1, 1)
    ELSE WithCalls(ParseResponse(request_type, outcome.content), 1, 0)

(***************************************************************************)
(* The requests callers send and the outcomes the backend produces.        *)
(***************************************************************************)
\* two languages of the templates dict, one outside it, and the empty str
Languages ==
    {L_javascript, L_python, L_go, <<>>}

RequestTypes ==
    {"generate", "debug", "explain", "optimize"}

\* the words prompts are made of: the keywords of get_template_code, two of them
\* capitalised, a word with "api" inside it, and a word with no keyword
Words ==
    {KW_react, W_React, KW_component, KW_api, KW_endpoint, KW_server, KW_function,
     W_Function, KW_class, W_rapid, W_add}

TemplatePrompts ==
    {Join(ws) : ws \in SeqUpTo(Words, MaxWords)} \cup {ExamplePrompt}

\* the pieces backend completions are made of
Chunks ==
    {ISSUE, FIXED_CODE, <<" ">>, T_foo, T_bar}

CompletionTexts ==
    {Concat(cs) : cs \in SeqUpTo(Chunks, MaxChunks)} \cup {ExampleDebugText}

\* POST /generate-code bodies (CodeRequestCreate)
GenerateBodies ==
    {[prompt |-> ExamplePrompt, language |-> L_python, request_type |-> "generate",
      code_input |-> None]}

\* the POST /generate-code bodies of the runs that read the history
HistoryRunBodies ==
    {[prompt |-> KW_function, language |-> L_python, request_type |-> "generate",
      code_input |-> None]}

\* POST /debug-code bodies (DebugRequest)
DebugBodies ==
    [code : {Src_snippet}, language : {L_python}, error_message : {None, Err_NameError}]

\* POST /optimize-code bodies (OptimizeRequest)
OptimizeBodies ==
    [code : {Src_snippet}, language : {L_python}, optimization_type : {OT_performance}]

\* POST /explain-code parameters
ExplainBodies ==
    [code : {Src_snippet}, language : {L_python}]

\* what the backend does with one call, in the handlers' runs
Outcomes ==
    {BackendOutcome(TRUE, None), BackendOutcome(FALSE, None),
     BackendOutcome(FALSE, ExampleDebugText)}

\* the outcome of the call a handler made, Absent when it made none
Seen(result, outcome) ==
    IF result.backend_calls = 0 THEN Absent ELSE outcome

\* GET /code-history?limit=
Limits ==
    {1, 2}

(***************************************************************************)
(* The handlers.  ops[i] is the i-th operation the server accepts: its     *)
(* handler's position (pc) and locals.  code_requests and code_responses   *)
(* are the collections db.code_requests and db.code_responses, in          *)
(* insertion order; the field op of a document is bookkeeping of the model *)
(* (the operation that wrote it).                                          *)
(***************************************************************************)
OpIds ==
    1..MaxOps

IdleOp ==
    [kind |-> "none", pc |-> "idle", prompt |-> None, language |-> None,
     request_type |-> "none", code_input |-> None, code_request |-> Absent,
     outcome |-> Absent, result |-> Absent, response |-> Absent, returned |-> Absent,
     store_failed |-> FALSE]

\* operations are accepted in the order of their indices
CanStart(i) ==
    /\ ops[i].pc = "idle"
    /\ \A j \in OpIds : j < i => ops[j].pc # "idle"

\* str(uuid.uuid4()): an identifier no other call gives; here the k-th call of
\* operation i
uuid4(i, k) ==
    <<"uuid4", i, k>>

\* CodeRequest(**request.dict()): id from uuid4, timestamp from datetime.utcnow
CodeRequest(id, body, now) ==
    [id |-> id, prompt |-> body.prompt, language |-> body.language,
     request_type |-> body.request_type, code_input |-> body.code_input,
     timestamp |-> now]

\* CodeResponse(...): generated_code: str refuses None (pydantic ValidationError)
CodeResponseValid(result) ==
    result.code # None /\ result.explanation # None

\* CodeResponse with request_id given the response's own id
CodeResponseOwnId(id, request_id, result, language) ==
    [id |-> id, request_id |-> id, generated_code |-> result.code,
     explanation |-> result.explanation, language |-> language]

CodeResponse(id, request_id, result, language) ==
    [id |-> id, request_id |-> request_id, generated_code |-> result.code,
     explanation |-> result.explanation, language |-> language]

\* generate_code, lines 273-276: build the CodeRequest and start its insert.
\* datetime.utcnow of this CodeRequest may give the instant the previous one got
\* (dt = 0: the clock's resolution, and the milliseconds the store keeps of a
\* datetime) or a later one (dt = 1).
StartGenerate(i, body, dt) ==
    /\ CanStart(i)
    /\ clock' = clock + dt
    /\ ops' = [ops EXCEPT ![i] =
                 [@ EXCEPT !.kind = "generate", !.pc = "insert_request",
                           !.prompt = body.prompt, !.language = body.language,
                           !.request_type = body.request_type,
                           !.code_input = body.code_input,
                           !.code_request = CodeRequest(uuid4(i, 1), body, clock + dt)]]
    /\ UNCHANGED <<client, code_requests, code_responses, history, call>>

\* line 276: the insert of the request is done
InsertRequestOk(i) ==
    /\ ops[i].kind = "generate" /\ ops[i].pc = "insert_request"
    /\ code_requests' = Append(code_requests, [doc |-> ops[i].code_request, op |-> i])
    /\ ops' = [ops EXCEPT ![i].pc = "generate_code_with_ai"]
    /\ UNCHANGED <<client, clock, code_responses, history, call>>

\* InsertRequestFail with the exception swallowed: the handler goes on
InsertRequestFailSwallowed(i) ==
    /\ ops[i].kind = "generate" /\ ops[i].pc = "insert_request"
    /\ ops' = [ops EXCEPT ![i].pc = "generate_code_with_ai", ![i].store_failed = TRUE]
    /\ UNCHANGED <<client, clock, code_requests, code_responses, history, call>>

\* line 276 raises: lines 300-302, HTTP 500
InsertRequestFail(i) ==
    /\ ops[i].kind = "generate" /\ ops[i].pc = "insert_request"
    /\ ops' = [ops EXCEPT ![i].pc = "error", ![i].store_failed = TRUE]
    /\ UNCHANGED <<client, clock, code_requests, code_responses, history, call>>

\* lines 279-296: the result, the CodeResponse built from it, its insert started;
\* a CodeResponse that does not validate raises: lines 300-302, HTTP 500
GenerateAndRespond(i, outcome) ==
    /\ ops[i].kind = "generate" /\ ops[i].pc = "generate_code_with_ai"
    /\ LET o      == ops[i]
           result == generate_code_with_ai(client, o.prompt, o.language,
                                           o.request_type, o.code_input, outcome)
       IN  IF CodeResponseValid(result)
           THEN ops' = [ops EXCEPT ![i] =
                        [@ EXCEPT !.pc = "insert_response",
                                  !.outcome = Seen(result, outcome), !.result = result,
                                  !.response = CodeResponse(uuid4(i, 2), o.code_request.id,
                                                            result, o.language)]]
           ELSE ops' = [ops EXCEPT ![i] =
                        [@ EXCEPT !.pc = "error",
                                  !.outcome = Seen(result, outcome), !.result = result]]
    /\ UNCHANGED <<client, clock, code_requests, code_responses, history, call>>

\* line 296 done, line 298: the response is returned
InsertResponseOk(i) ==
    /\ ops[i].kind = "generate" /\ ops[i].pc = "insert_response"
    /\ code_responses' = Append(code_responses, [doc |-> ops[i].response, op |-> i])
    /\ ops' = [ops EXCEPT ![i].pc = "done", ![i].returned = ops[i].response]
    /\ UNCHANGED <<client, clock, code_requests, history, call>>

\* line 296 raises: lines 300-302, HTTP 500
InsertResponseFail(i) ==
    /\ ops[i].kind = "generate" /\ ops[i].pc = "insert_response"
    /\ ops' = [ops EXCEPT ![i].pc = "error", ![i].store_failed = TRUE]
    /\ UNCHANGED <<client, clock, code_requests, code_responses, history, call>>

\* lines 308-310: the prompt debug_code makes up
DebugPrompt(body) ==
    DebugThis \o body.language \o CodeWord
    \o (IF body.error_message # None /\ body.error_message # <<>>
        THEN ThatGivesThisError \o body.error_message
        ELSE <<>>)

\* debug_code: no await suspends it, so it runs in one step
debug_code(i, body, outcome) ==
    /\ CanStart(i)
    /\ LET prompt == DebugPrompt(body)
           result == generate_code_with_ai(client, prompt, body.language, "debug",
                                           body.code, outcome)
       IN  ops' = [ops EXCEPT ![i] =
                     [@ EXCEPT !.kind = "debug", !.pc = "done", !.prompt = prompt,
                               !.language = body.language, !.request_type = "debug",
                               !.code_input = body.code,
                               !.outcome = Seen(result, outcome), !.result = result,
                               !.returned = [original_code |-> body.code,
                                             fixed_code    |-> result.code,
                                             explanation   |-> result.explanation,
                                             language      |-> body.language]]]
    /\ UNCHANGED <<client, clock, code_requests, code_responses, history, call>>

\* line 334
OptimizePrompt(body) ==
    OptimizeThis \o body.language \o CodeFor \o body.optimization_type

optimize_code(i, body, outcome) ==
    /\ CanStart(i)
    /\ LET prompt == OptimizePrompt(body)
           result == generate_code_with_ai(client, prompt, body.language, "optimize",
                                           body.code, outcome)
       IN  ops' = [ops EXCEPT ![i] =
                     [@ EXCEPT !.kind = "optimize", !.pc = "done", !.prompt = prompt,
                               !.language = body.language, !.request_type = "optimize",
                               !.code_input = body.code,
                               !.outcome = Seen(result, outcome), !.result = result,
                               !.returned = [original_code     |-> body.code,
                                             optimized_code    |-> result.code,
                                             explanation       |-> result.explanation,
                                             language          |-> body.language,
                                             optimization_type |-> body.optimization_type]]]
    /\ UNCHANGED <<client, clock, code_requests, code_responses, history, call>>

explain_code(i, body, outcome) ==
    /\ CanStart(i)
    /\ LET result == generate_code_with_ai(client, ExplainPrompt, body.language,
                                           "explain", body.code, outcome)
       IN  ops' = [ops EXCEPT ![i] =
                     [@ EXCEPT !.kind = "explain", !.pc = "done",
                               !.prompt = ExplainPrompt,
                               !.language = body.language, !.request_type = "explain",
                               !.code_input = body.code,
                               !.outcome = Seen(result, outcome), !.result = result,
                               !.returned = [code        |-> body.code,
                                             explanation |-> result.explanation,
                                             language    |-> body.language]]]
    /\ UNCHANGED <<client, clock, code_requests, code_responses, history, call>>

\* find().sort("timestamp", -1): the documents by falling timestamp; documents
\* with equal timestamps come in whatever order the store gives them
SortedByTimestampDesc(docs) ==
    LET n == Len(docs)
    IN  {[k \in 1..n |-> docs[p[k]].doc] :
            p \in {q \in [1..n -> 1..n] :
                     /\ \A a, b \in 1..n : a # b => q[a] # q[b]
                     /\ \A a, b \in 1..n :
                          a < b => docs[q[a]].doc.timestamp >= docs[q[b]].doc.timestamp}}

Min(a, b) ==
    IF a <= b THEN a ELSE b

\* .limit(limit).to_list(limit)
LimitTo(docs, limit) ==
    SubSeq(docs, 1, Min(limit, Len(docs)))

\* get_code_history, lines 380-381; found: how many requests the collection held
\* (bookkeeping of the model)
get_code_history(limit) ==
    /\ \E sorted \in SortedByTimestampDesc(code_requests) :
          history' = [limit |-> limit, found |-> Len(code_requests),
                      status |-> 200, requests |-> LimitTo(sorted, limit)]
    /\ UNCHANGED <<client, clock, code_requests, code_responses, ops, call>>

\* line 380 raises: lines 382-384, HTTP 500
get_code_history_fail(limit) ==
    /\ history' = [limit |-> limit, found |-> Len(code_requests),
                   status |-> 500, requests |-> <<>>]
    /\ UNCHANGED <<client, clock, code_requests, code_responses, ops, call>>

\* lines 26-27: client is the OpenAI client (TRUE) or None (FALSE), by OPENAI_API_KEY
Init ==
    /\ client \in BOOLEAN
    /\ clock = 0
    /\ code_requests = <<>>
    /\ code_responses = <<>>
    /\ ops = [i \in OpIds |-> IdleOp]
    /\ history = Absent
    /\ call = Absent

Next ==
    \/ \E i \in OpIds, body \in GenerateBodies, dt \in 0..1 : StartGenerate(i, body, dt)
    \/ \E i \in OpIds : InsertRequestOk(i)
    \/ \E i \in OpIds : InsertRequestFail(i)
    \/ \E i \in OpIds, outcome \in Outcomes : GenerateAndRespond(i, outcome)
    \/ \E i \in OpIds : InsertResponseOk(i)
    \/ \E i \in OpIds : InsertResponseFail(i)
    \/ \E i \in OpIds, body \in DebugBodies, outcome \in Outcomes : debug_code(i, body, outcome)
    \/ \E i \in OpIds, body \in OptimizeBodies, outcome \in Outcomes : optimize_code(i, body, outcome)
    \/ \E i \in OpIds, body \in ExplainBodies, outcome \in Outcomes : explain_code(i, body, outcome)

Spec ==
    Init /\ [][Next]_vars

\* the runs that read the history: generate operations and GET /code-history
NextHistory ==
    \/ \E i \in OpIds, body \in HistoryRunBodies, dt \in 0..1 : StartGenerate(i, body, dt)
    \/ \E i \in OpIds : InsertRequestOk(i)
    \/ \E i \in OpIds : InsertRequestFail(i)
    \/ \E i \in OpIds, outcome \in Outcomes : GenerateAndRespond(i, outcome)
    \/ \E i \in OpIds : InsertResponseOk(i)
    \/ \E i \in OpIds : InsertResponseFail(i)
    \/ \E limit \in Limits : get_code_history(limit)
    \/ \E limit \in Limits : get_code_history_fail(limit)

\* a deployment without OPENAI_API_KEY
InitHistory ==
    /\ Init
    /\ client = FALSE

SpecHistory ==
    InitHistory /\ [][NextHistory]_vars

(***************************************************************************)
(* get_template_code and generate_code_with_ai called on their own, over   *)
(* wider sets of arguments than the handlers' runs use.                    *)
(***************************************************************************)
InvokerRequestTypes ==
    RequestTypes \cup {"translate"}

InvokerOutcomes ==
    {BackendOutcome(TRUE, None), BackendOutcome(FALSE, None)}
    \cup {BackendOutcome(FALSE, t) : t \in CompletionTexts}

InitTemplate ==
    /\ Init
    /\ client = FALSE

CallTemplate(prompt, language, request_type) ==
    /\ call = Absent
    /\ call' = [fn |-> "get_template_code", prompt |-> prompt, language |-> language,
                request_type |-> request_type,
                result |-> get_template_code(prompt, language, request_type)]
    /\ UNCHANGED <<client, clock, code_requests, code_responses, ops, history>>

NextTemplate ==
    \E prompt \in TemplatePrompts, language \in Languages, request_type \in RequestTypes :
        CallTemplate(prompt, language, request_type)

SpecTemplate ==
    InitTemplate /\ [][NextTemplate]_vars

CallInvoker(prompt, language, request_type, code_input, outcome) ==
    /\ call = Absent
    /\ call' = [fn |-> "generate_code_with_ai", prompt |-> prompt, language |-> language,
                request_type |-> request_type, code_input |-> code_input,
                outcome |-> outcome,
                result |-> generate_code_with_ai(client, prompt, language, request_type,
                                                 code_input, outcome)]
    /\ UNCHANGED <<client, clock, code_requests, code_responses, ops, history>>

NextInvoker ==
    \E request_type \in InvokerRequestTypes, outcome \in InvokerOutcomes :
        CallInvoker(ExamplePrompt, L_python, request_type, Src_snippet, outcome)

SpecInvoker ==
    Init /\ [][NextInvoker]_vars

(***************************************************************************)
(* The claims.                                                             *)
(***************************************************************************)
\* the documents operation i wrote
RequestsOf(i) ==
    {k \in DOMAIN code_requests : code_requests[k].op = i}

ResponsesOf(i) ==
    {k \in DOMAIN code_responses : code_responses[k].op = i}

PersistedPair(i) ==
    /\ Cardinality(RequestsOf(i)) = 1
    /\ Cardinality(ResponsesOf(i)) = 1
    /\ \A q \in RequestsOf(i), r \in ResponsesOf(i) :
          code_responses[r].doc.request_id = code_requests[q].doc.id

C2_ErrorOnlyFromStore ==
    \A i \in OpIds :
        ops[i].kind = "generate" /\ ops[i].pc = "error" => ops[i].store_failed

\* C3: every persisted CodeResponse carries the id of a CodeRequest the same
\* operation persisted; an operation whose response write is under way has its
\* request persisted; an operation whose request write failed has no response.
C3_ResponseRefersToPersistedRequest ==
    /\ \A r \in DOMAIN code_responses :
          \E q \in DOMAIN code_requests :
              /\ code_requests[q].op = code_responses[r].op
              /\ code_requests[q].doc.id = code_responses[r].doc.request_id
    /\ \A i \in OpIds :
          ops[i].pc = "insert_response" => RequestsOf(i) # {}
    /\ \A i \in OpIds :
          ops[i].kind = "generate" /\ ops[i].pc # "insert_request" /\ RequestsOf(i) = {}
              => ResponsesOf(i) = {} /\ ops[i].pc = "error"

C3_Witness ==
    \E i, j \in OpIds :
        /\ ResponsesOf(i) # {}
        /\ ops[j].kind = "generate" /\ ops[j].pc = "error" /\ RequestsOf(j) = {}

\* the text before the first "FIXED CODE:", a leading "ISSUE:" taken off, trimmed
LeadingIssueStripped(before) ==
    IF Len(before) >= Len(ISSUE) /\ SubSeq(before, 1, Len(ISSUE)) = ISSUE
    THEN Strip(SubSeq(before, Len(ISSUE) + 1, Len(before)))
    ELSE Strip(before)

\* C4, as stated: for a debug request and a backend text with "FIXED CODE:" in
\* it, the explanation is the text before the first marker, a leading "ISSUE:"
\* stripped (before or after trimming), trimmed, and the code is all of the text
\* after the first marker, trimmed.
C4_SplitOnFirstMarker ==
    ( /\ call # Absent
      /\ client
      /\ call.request_type = "debug"
      /\ ~call.outcome.raises
      /\ call.outcome.content # None
      /\ Contains(call.outcome.content, FIXED_CODE) )
    => LET text   == call.outcome.content
           at     == Find(text, FIXED_CODE)
           before == SubSeq(text, 1, at - 1)
           after  == SubSeq(text, at + Len(FIXED_CODE), Len(text))
       IN  /\ call.result.code = Strip(after)
           /\ call.result.explanation \in
                 {LeadingIssueStripped(before), LeadingIssueStripped(Strip(before))}

\* the rules of get_template_code that a prompt meets
MeetsReact(prompt) ==
    Contains(Lower(prompt), KW_react) \/ Contains(Lower(prompt), KW_component)

MeetsApi(prompt) ==
    \/ Contains(Lower(prompt), KW_api)
    \/ Contains(Lower(prompt), KW_endpoint)
    \/ Contains(Lower(prompt), KW_server)

MeetsFunction(prompt) ==
    Contains(Lower(prompt), KW_function)

\* C5, as stated: for every language and request type, a prompt containing both
\* "react" and "function" resolves via the React branch.
C5_ReactBeforeFunctionEveryLanguage ==
    ( /\ call # Absent
      /\ Contains(call.prompt, KW_react)
      /\ Contains(call.prompt, KW_function) )
    => call.result.explanation = ExplReact

\* C5, amended: for every language that has a catalog entry and every request
\* type the rules are tried in the order react/component, api/endpoint/server,
\* function, and a prompt containing both "react" and "function" (in any case)
\* resolves via the React branch, never via the function branch; for a language
\* without a catalog entry no rule is tried and the generic placeholder is returned.
C5_ReactBeforeFunctionInCatalog ==
    call # Absent =>
        IF call.language \in DOMAIN templates
        THEN /\ MeetsReact(call.prompt) => call.result.explanation = ExplReact
             /\ ~MeetsReact(call.prompt) /\ MeetsApi(call.prompt)
                   => call.result.explanation = ExplApi
             /\ ~MeetsReact(call.prompt) /\ ~MeetsApi(call.prompt)
                /\ MeetsFunction(call.prompt)
                   => call.result.explanation = ExplFunction
             /\ ~MeetsReact(call.prompt) /\ ~MeetsApi(call.prompt)
                /\ ~MeetsFunction(call.prompt)
                /\ Contains(Lower(call.prompt), KW_class) /\ call.language = L_python
                   => call.result.explanation = ExplClass
             /\ Contains(Lower(call.prompt), KW_react) /\ MeetsFunction(call.prompt)
                   => /\ call.result.explanation # ExplFunction
                      /\ call.result.code # templates[call.language]["function"]
        ELSE call.result.explanation = ExplBasic

C5_Witness ==
    /\ call # Absent
    /\ call.language = L_javascript
    /\ Contains(call.prompt, KW_react)
    /\ Contains(call.prompt, KW_function)
    /\ call.result.code = Tpl_js_react_component

\* C6: for every prompt, language and request type get_template_code returns a
\* dict with a non-empty code str and a non-empty explanation str.
C6_TemplateTotal ==
    call # Absent =>
        /\ DOMAIN call.result = {"code", "explanation"}
        /\ call.result.code # None /\ Len(call.result.code) > 0
        /\ call.result.explanation # None /\ Len(call.result.explanation) > 0

\* a keyword branch whose template the language's catalog does not define
C6_Witness ==
    /\ call # Absent
    /\ call.language = L_python
    /\ call.request_type = "optimize"
    /\ MeetsReact(call.prompt)
    /\ call.result.code = NotAvailableSlash

\* the operation that created a request document: operations are accepted, and
\* their CodeRequests created, in the order of their indices
Creator(doc) ==
    CHOOSE i \in OpIds : ops[i].code_request = doc

\* C7, as stated: history with limit N returns min(N, persisted requests)
\* records, the most recently created ones, the newest first.
C7_NewestFirst ==
    history # Absent /\ history.status = 200 =>
        LET rs     == history.requests
            stored == {code_requests[k].doc : k \in 1..history.found}
            given  == {rs[k] : k \in 1..Len(rs)}
        IN  /\ Len(rs) = Min(history.limit, history.found)
            /\ given \subseteq stored
            /\ \A a, b \in 1..Len(rs) : a < b => Creator(rs[a]) > Creator(rs[b])
            /\ \A d \in stored \ given : \A g \in given : Creator(g) > Creator(d)

\* C8: without a client no operation calls the backend, and the code and the
\* explanation it uses are get_template_code's for the same prompt, language and
\* request type; the prompt "write a function to add two numbers" in python
\* gives the python function template, and no error.
C8_NoClientUsesTemplate ==
    ~client =>
        \A i \in OpIds :
            ops[i].result # Absent =>
                LET t == get_template_code(ops[i].prompt, ops[i].language,
                                           ops[i].request_type)
                IN  /\ ops[i].result.backend_calls = 0
                    /\ ops[i].outcome = Absent
                    /\ ops[i].result.code = t.code
                    /\ ops[i].result.explanation = t.explanation
                    /\ ops[i].prompt = ExamplePrompt /\ ops[i].language = L_python
                          => ops[i].result.code = Tpl_py_function
                    /\ ops[i].pc = "error" => ops[i].store_failed

C8_Witness ==
    /\ ~client
    /\ \E i \in OpIds :
          /\ ops[i].kind = "generate" /\ ops[i].pc = "done"
          /\ ops[i].prompt = ExamplePrompt /\ ops[i].language = L_python
          /\ ops[i].returned.generated_code = Tpl_py_function

\* C9: an operation calls the backend at most once; when the call raises, the
\* template selector is used exactly once, its result is the operation's result,
\* and the backend is not called again.
C9_NoRetry ==
    \A i \in OpIds :
        ops[i].result # Absent =>
            /\ ops[i].result.backend_calls <= 1
            /\ ops[i].outcome # Absent /\ ops[i].outcome.raises
                  => /\ ops[i].result.backend_calls = 1
                     /\ ops[i].result.template_calls = 1
                     /\ ops[i].result.code =
                           get_template_code(ops[i].prompt, ops[i].language,
                                             ops[i].request_type).code

C9_Witness ==
    \E i \in OpIds :
        /\ ops[i].result # Absent
        /\ ops[i].outcome # Absent /\ ops[i].outcome.raises
        /\ ops[i].result.template_calls = 1

====
